---- MODULE Spec2Model ----
(***************************************************************************)
(* The World of src/models/core/world.rs: the chunk map, the cached list  *)
(* of chunk meshes for the viewer, world-to-chunk localisation, the block  *)
(* queries and the raymarch used for block picking.                        *)
(*                                                                         *)
(* Chunk, CoordMap, BlockType and Face live in sibling files that are not  *)
(* part of the given sources; they are modelled from their documented      *)
(* interface (ChunkNew, ChunkBlockAt, ChunkSetBlock, ChunkMesh).           *)
(***************************************************************************)
EXTENDS Integers, Sequences, FiniteSets, TLC

(***************************************************************************)
(* Program constants                                                       *)
(***************************************************************************)
\* the divisor of world.rs:38-39 and world.rs:148-159
ChunkSize == 16

\* `let mut range = 250;` (world.rs:166)
RaymarchRange == 250

\* `*direction / 10.0` (world.rs:165): positions are modelled in tenths
StepDivisor == 10

(***************************************************************************)
(* Bounds of the model                                                     *)
(***************************************************************************)
\* i32 scaled down: integers are IntBits wide, overflow wraps (% 2^IntBits)
IntBits == 12

\* render distances 0..MaxRender are tried at construction
MaxRender == 1

\* localisation is applied to every coordinate in -MaxCoord..MaxCoord
MaxCoord == 40

\* raymarch origins (k,0,0) for k in 1..MaxOriginX
MaxOriginX == 20

VARIABLES
    chunks,          \* World.chunks: <<chunk_x, chunk_z>> -> Chunk
    render_distance, \* World.render_distance
    simplex,         \* World.simplex: the noise field every chunk is seeded with
    player_chunk_x,  \* World.player_chunk_x
    player_chunk_z,  \* World.player_chunk_z
    mesh,            \* World.mesh: sequence of chunk mesh buffers
    mesh_center,     \* history: arguments of the last recalculate_mesh_from_perspective
    panicked,        \* the thread has panicked (unwrap on None)
    call,            \* the operation last called, with its arguments
    result           \* what it returned

vars == <<chunks, render_distance, simplex, player_chunk_x, player_chunk_z,
          mesh, mesh_center, panicked, call, result>>

world == <<chunks, render_distance, simplex, player_chunk_x, player_chunk_z,
           mesh, mesh_center, panicked>>

(***************************************************************************)
(* i32 arithmetic                                                          *)
(***************************************************************************)
IntMin == -(2^(IntBits - 1))

IntMax == 2^(IntBits - 1) - 1

InRange(n) == IntMin <= n /\ n <= IntMax

\* two's complement wrap-around of a mathematical integer
Wrap(n) ==
    LET r == n % (2^IntBits)
    IN  IF r > IntMax THEN r - 2^IntBits ELSE r

\* Rust's `/` on integers truncates toward zero (b > 0)
TruncDiv(a, b) == IF a >= 0 THEN a \div b ELSE -((-a) \div b)

\* Rust's `%` on integers: the remainder has the sign of the dividend
TruncRem(a, b) == a - b * TruncDiv(a, b)

\* i32::abs
Abs(n) == IF n < 0 THEN -n ELSE n

(***************************************************************************)
(* World::localize_coords_to_chunk, one axis (world.rs:148-151, 158)       *)
(***************************************************************************)
\* mutant: the chunk is computed with plain truncating division
localize_axis_truncating(w) ==
    LET chunk == TruncDiv(w, ChunkSize)
        local == Abs(TruncRem(Wrap(Wrap(Abs(chunk) * ChunkSize) + w), ChunkSize))
    IN  [chunk |-> chunk, local |-> local, overflow |-> FALSE]

localize_axis(w) ==
    LET c0    == TruncDiv(w + (IF w < 0 THEN 1 ELSE 0), ChunkSize)
        chunk == IF w < 0 THEN c0 - 1 ELSE c0
        a     == Abs(chunk)
        m     == Wrap(a) * ChunkSize
        s     == Wrap(m) + w
        local == Abs(TruncRem(Wrap(s), ChunkSize))
    IN  [chunk |-> chunk, local |-> local,
         overflow |-> ~InRange(a) \/ ~InRange(m) \/ ~InRange(s)]

\* (chunk_x, chunk_z, local_x, local_z) of world.rs:160
localize_coords_to_chunk(world_x, world_z) ==
    LET lx == localize_axis(world_x)
        lz == localize_axis(world_z)
    IN  [chunk_x |-> lx.chunk, chunk_z |-> lz.chunk,
         local_x |-> lx.local, local_z |-> lz.local]

(***************************************************************************)
(* BlockType, Chunk (external collaborators, from their interface)         *)
(***************************************************************************)
Air == "Air"

Stone == "Stone"

BlockTypes == {Air, Stone}

\* the noise fields a World may be built with: terrain is a deterministic
\* function of the field and the position
Simplexes == {"void", "flat"}

\* terrain generated for a fresh chunk: nothing, or a stone floor at y = 0
Terrain(seed, y) == IF seed = "flat" /\ y = 0 THEN Stone ELSE Air

\* Chunk::new(chunk_x, chunk_z, simplex): generated terrain, no edits yet
ChunkNew(chunk_x, chunk_z, seed) ==
    [chunk_x |-> chunk_x, chunk_z |-> chunk_z, seed |-> seed,
     edits |-> [p \in {} |-> Air]]

\* Chunk::block_at(local_x, y, local_z)
ChunkBlockAt(c, local_x, y, local_z) ==
    IF <<local_x, y, local_z>> \in DOMAIN c.edits
    THEN c.edits[<<local_x, y, local_z>>]
    ELSE Terrain(c.seed, y)

\* Chunk::set_block(local_x, y, local_z, block): edits hold only the
\* positions that differ from the generated terrain
ChunkSetBlock(c, local_x, y, local_z, block) ==
    LET p    == <<local_x, y, local_z>>
        keep == IF block = Terrain(c.seed, y)
                THEN DOMAIN c.edits \ {p}
                ELSE DOMAIN c.edits \cup {p}
    IN  [c EXCEPT !.edits = [q \in keep |-> IF q = p THEN block ELSE c.edits[q]]]

\* chunk.mesh: the buffer of this chunk; its content is the geometry of the
\* chunk's blocks, and a changed chunk has a new buffer
ChunkMesh(c) ==
    [chunk_x |-> c.chunk_x, chunk_z |-> c.chunk_z, geometry |-> c.edits]

\* the height H of the 16 x 16 x H block grid of a chunk
ChunkHeight == 3

\* Chunk::highest_in_column_from_y(local_x, y, local_z): the column scan,
\* downwards from y; the highest occupied y found, 0 for an empty column
ChunkHighestInColumnFromY(c, local_x, y, local_z) ==
    LET top      == IF y < ChunkHeight THEN y ELSE ChunkHeight - 1
        occupied == {h \in 0..top : ChunkBlockAt(c, local_x, h, local_z) # Air}
    IN  IF occupied = {} THEN 0
        ELSE CHOOSE h \in occupied : \A g \in occupied : g <= h

\* Chunk::highest_in_column(local_x, local_z): the scan of the whole column
ChunkHighestInColumn(c, local_x, local_z) ==
    ChunkHighestInColumnFromY(c, local_x, ChunkHeight - 1, local_z)

(***************************************************************************)
(* World::new (world.rs:20-25)                                             *)
(***************************************************************************)
NoChunks == [c \in {} |-> ChunkNew(0, 0, "void")]

Init ==
    /\ chunks = NoChunks
    /\ render_distance \in 0..MaxRender
    /\ simplex \in Simplexes
    /\ player_chunk_x = 0
    /\ player_chunk_z = 0
    /\ mesh = <<>>
    /\ mesh_center = <<0, 0>>
    /\ panicked = FALSE
    /\ call = [op |-> "new", args |-> <<render_distance>>]
    /\ result = [kind |-> "unit"]

(***************************************************************************)
(* Chunk access (world.rs:73-93)                                           *)
(***************************************************************************)
\* CoordMap::contains
Contains(cm, chunk_x, chunk_z) == <<chunk_x, chunk_z>> \in DOMAIN cm

\* World::get_or_insert_chunk on a chunk map: the map afterwards
\* mutant: a fresh chunk replaces the one already in the map
InsertIfAbsent_replacing(cm, chunk_x, chunk_z) ==
    [k \in DOMAIN cm \cup {<<chunk_x, chunk_z>>} |->
        IF k = <<chunk_x, chunk_z>>
        THEN ChunkNew(chunk_x, chunk_z, simplex)
        ELSE cm[k]]

InsertIfAbsent(cm, chunk_x, chunk_z) ==
    IF Contains(cm, chunk_x, chunk_z)
    THEN cm
    ELSE [k \in DOMAIN cm \cup {<<chunk_x, chunk_z>>} |->
            IF k = <<chunk_x, chunk_z>>
            THEN ChunkNew(chunk_x, chunk_z, simplex)
            ELSE cm[k]]

\* World::get_chunk: Option<&Chunk>
get_chunk(chunk_x, chunk_z) ==
    IF Contains(chunks, chunk_x, chunk_z)
    THEN [some |-> TRUE, chunk |-> chunks[<<chunk_x, chunk_z>>]]
    ELSE [some |-> FALSE]

(***************************************************************************)
(* Viewport mesh caching (world.rs:37-71)                                  *)
(***************************************************************************)
\* `player_x / 16` (world.rs:38-39)
PlayerChunk(player) == TruncDiv(player, ChunkSize)

\* world.rs:61: sqrt(dx^2 + dz^2) > render_distance.  The operands are small
\* integers, for which the f32 square root is exact on squares and monotonic,
\* so the test is the comparison of the squares.
TooFar(pcx, pcz, x, z) ==
    (pcx - x)^2 + (pcz - z)^2 > render_distance * render_distance

\* the loops of world.rs:57-68, iteration i of (2 * render_distance)^2, x outer
RECURSIVE RecalcLoop(_, _, _, _, _)
RecalcLoop(i, cm, meshes, pcx, pcz) ==
    LET n == render_distance * 2
    IN  IF i >= n * n
        THEN [chunks |-> cm, mesh |-> meshes]
        ELSE LET x == (i \div n) - render_distance + pcx
                 z == (i % n) - render_distance + pcz
                 cm2 == InsertIfAbsent(cm, x, z)
             IN  IF TooFar(pcx, pcz, x, z)
                 THEN RecalcLoop(i + 1, cm, meshes, pcx, pcz)
                 ELSE RecalcLoop(i + 1, cm2,
                                 Append(meshes, ChunkMesh(cm2[<<x, z>>])),
                                 pcx, pcz)

\* mutant: force does not bypass the cache
CacheHit_ignoring_force(pcx, pcz, force) ==
    /\ Len(mesh) > 0
    /\ player_chunk_x = pcx
    /\ player_chunk_z = pcz

\* mutant: the emptiness test of the cache is inverted
CacheHit_empty_cache(pcx, pcz, force) ==
    /\ ~force
    /\ Len(mesh) = 0
    /\ player_chunk_x = pcx
    /\ player_chunk_z = pcz

\* the condition of world.rs:40-43
CacheHit(pcx, pcz, force) ==
    /\ ~force
    /\ Len(mesh) > 0
    /\ player_chunk_x = pcx
    /\ player_chunk_z = pcz

\* World::recalculate_mesh_from_perspective (world.rs:55-71)
recalculate_mesh_from_perspective(pcx, pcz) ==
    LET r == RecalcLoop(0, chunks, <<>>, pcx, pcz)
    IN  /\ ~panicked
        /\ chunks' = r.chunks
        /\ mesh' = r.mesh
        /\ mesh_center' = <<pcx, pcz>>
        /\ call' = [op |-> "recalculate_mesh_from_perspective", args |-> <<pcx, pcz>>]
        /\ result' = [kind |-> "unit"]
        /\ UNCHANGED <<render_distance, simplex, player_chunk_x, player_chunk_z, panicked>>

\* World::get_world_mesh_from_perspective (world.rs:37-53)
get_world_mesh_from_perspective(player_x, player_z, force) ==
    LET pcx == PlayerChunk(player_x)
        pcz == PlayerChunk(player_z)
        r   == RecalcLoop(0, chunks, <<>>, pcx, pcz)
    IN  /\ ~panicked
        /\ call' = [op |-> "get_world_mesh_from_perspective",
                    args |-> <<player_x, player_z, force>>]
        /\ IF CacheHit(pcx, pcz, force)
           THEN /\ result' = [kind |-> "mesh", value |-> mesh]
                /\ UNCHANGED world
           ELSE /\ chunks' = r.chunks
                /\ mesh' = r.mesh
                /\ mesh_center' = <<pcx, pcz>>
                /\ player_chunk_x' = pcx
                /\ player_chunk_z' = pcz
                /\ result' = [kind |-> "mesh", value |-> r.mesh]
                /\ UNCHANGED <<render_distance, simplex, panicked>>

\* World::get_or_insert_chunk (world.rs:73-82)
get_or_insert_chunk(chunk_x, chunk_z) ==
    /\ ~panicked
    /\ chunks' = InsertIfAbsent(chunks, chunk_x, chunk_z)
    /\ call' = [op |-> "get_or_insert_chunk", args |-> <<chunk_x, chunk_z>>]
    /\ result' = [kind |-> "chunk", value |-> chunks'[<<chunk_x, chunk_z>>]]
    /\ UNCHANGED <<render_distance, simplex, player_chunk_x, player_chunk_z,
                   mesh, mesh_center, panicked>>

(***************************************************************************)
(* Block queries and edits (world.rs:95-119, 141-145)                      *)
(***************************************************************************)
\* mutant: below the floor is reported as air
AirAtValue_air_below(world_x, world_y, world_z) ==
    LET l == localize_coords_to_chunk(world_x, world_z)
        c == get_chunk(l.chunk_x, l.chunk_z)
    IN  IF world_y < 0 THEN TRUE
        ELSE IF c.some
             THEN ChunkBlockAt(c.chunk, l.local_x, world_y, l.local_z) = Air
             ELSE TRUE

\* mutant: space without a chunk is reported as solid
AirAtValue_unloaded_solid(world_x, world_y, world_z) ==
    LET l == localize_coords_to_chunk(world_x, world_z)
        c == get_chunk(l.chunk_x, l.chunk_z)
    IN  IF world_y < 0 THEN FALSE
        ELSE IF c.some
             THEN ChunkBlockAt(c.chunk, l.local_x, world_y, l.local_z) = Air
             ELSE FALSE

\* the value of World::air_at (world.rs:95-108)
AirAtValue(world_x, world_y, world_z) ==
    LET l == localize_coords_to_chunk(world_x, world_z)
        c == get_chunk(l.chunk_x, l.chunk_z)
    IN  IF world_y < 0 THEN FALSE
        ELSE IF c.some
             THEN ChunkBlockAt(c.chunk, l.local_x, world_y, l.local_z) = Air
             ELSE TRUE

\* mutant: a block of a chunk that does not exist is reported as Some(Air)
GetBlockValue_unloaded_air(world_x, world_y, world_z) ==
    LET l == localize_coords_to_chunk(world_x, world_z)
        c == get_chunk(l.chunk_x, l.chunk_z)
    IN  IF world_y < 0 THEN "None"
        ELSE IF ~c.some THEN Air
        ELSE ChunkBlockAt(c.chunk, l.local_x, world_y, l.local_z)

\* the value of World::get_block (world.rs:110-119): "None" or Some(block)
GetBlockValue(world_x, world_y, world_z) ==
    LET l == localize_coords_to_chunk(world_x, world_z)
        c == get_chunk(l.chunk_x, l.chunk_z)
    IN  IF ~c.some \/ world_y < 0
        THEN "None"
        ELSE ChunkBlockAt(c.chunk, l.local_x, world_y, l.local_z)

\* World::air_at
air_at(world_x, world_y, world_z) ==
    /\ ~panicked
    /\ call' = [op |-> "air_at", args |-> <<world_x, world_y, world_z>>]
    /\ result' = [kind |-> "bool", value |-> AirAtValue(world_x, world_y, world_z)]
    /\ UNCHANGED world

\* World::get_block
get_block(world_x, world_y, world_z) ==
    /\ ~panicked
    /\ call' = [op |-> "get_block", args |-> <<world_x, world_y, world_z>>]
    /\ result' = [kind |-> "block", value |-> GetBlockValue(world_x, world_y, world_z)]
    /\ UNCHANGED world

\* mutant: the chunk of a write is found by truncating division
set_block_truncating(world_x, world_y, world_z, block) ==
    LET l == localize_coords_to_chunk(world_x, world_z)
        k == <<TruncDiv(world_x, ChunkSize), TruncDiv(world_z, ChunkSize)>>
    IN  /\ ~panicked
        /\ call' = [op |-> "set_block", args |-> <<world_x, world_y, world_z, block>>]
        /\ result' = [kind |-> "unit"]
        /\ IF k \in DOMAIN chunks
           THEN /\ chunks' = [chunks EXCEPT ![k] =
                      ChunkSetBlock(@, l.local_x, world_y, l.local_z, block)]
                /\ UNCHANGED panicked
           ELSE /\ panicked' = TRUE
                /\ UNCHANGED chunks
        /\ UNCHANGED <<render_distance, simplex, player_chunk_x, player_chunk_z,
                       mesh, mesh_center>>

\* mutant: set_block creates the chunk it does not find
set_block_creating(world_x, world_y, world_z, block) ==
    LET l  == localize_coords_to_chunk(world_x, world_z)
        k  == <<l.chunk_x, l.chunk_z>>
        cm == InsertIfAbsent(chunks, l.chunk_x, l.chunk_z)
    IN  /\ ~panicked
        /\ call' = [op |-> "set_block", args |-> <<world_x, world_y, world_z, block>>]
        /\ result' = [kind |-> "unit"]
        /\ chunks' = [cm EXCEPT ![k] =
                        ChunkSetBlock(@, l.local_x, world_y, l.local_z, block)]
        /\ UNCHANGED <<render_distance, simplex, player_chunk_x, player_chunk_z,
                       mesh, mesh_center, panicked>>

\* World::set_block (world.rs:141-145); get_chunk_mut (world.rs:84-89) yields
\* None for an absent chunk and the unwrap panics
set_block(world_x, world_y, world_z, block) ==
    LET l == localize_coords_to_chunk(world_x, world_z)
        k == <<l.chunk_x, l.chunk_z>>
    IN  /\ ~panicked
        /\ call' = [op |-> "set_block", args |-> <<world_x, world_y, world_z, block>>]
        /\ result' = [kind |-> "unit"]
        /\ IF Contains(chunks, l.chunk_x, l.chunk_z)
           THEN /\ chunks' = [chunks EXCEPT ![k] =
                                ChunkSetBlock(@, l.local_x, world_y, l.local_z, block)]
                /\ UNCHANGED panicked
           ELSE /\ panicked' = TRUE
                /\ UNCHANGED chunks
        /\ UNCHANGED <<render_distance, simplex, player_chunk_x, player_chunk_z,
                       mesh, mesh_center>>

(***************************************************************************)
(* Raymarching (world.rs:163-242).  A position is a triple of tenths of a  *)
(* block, a direction a triple of whole blocks, so that direction / 10 is  *)
(* a whole number of tenths and the sampled positions are exact.           *)
(***************************************************************************)
\* f32::round followed by `as i32`: nearest integer, halves away from zero
RoundTenths(t) ==
    IF t >= 0
    THEN (t + StepDivisor \div 2) \div StepDivisor
    ELSE -((-t + StepDivisor \div 2) \div StepDivisor)

\* signum (world.rs:236-242)
signum(n) == IF n > 0 THEN 1 ELSE -1

NoFace == "None"

\* mutant: the faces of each axis are swapped
ResolveFace_mirrored(x, y, z, v) ==
    LET x_air == AirAtValue(x + signum(v[1]), y, z)
        face1 == IF x_air THEN (IF v[1] > 0 THEN "Left" ELSE "Right") ELSE NoFace
        y_try == face1 = NoFace \/ Abs(v[2]) > Abs(v[1])
        y_air == y_try /\ AirAtValue(x, y + signum(v[2]), z)
        face2 == IF y_air THEN (IF v[2] > 0 THEN "Bottom" ELSE "Top") ELSE face1
        z_try == face2 = NoFace
                    \/ (IF x_air /\ ~y_air THEN Abs(v[3]) > Abs(v[1])
                        ELSE Abs(v[3]) > Abs(v[2]))
        z_air == z_try /\ AirAtValue(x, y, z + signum(v[3]))
    IN  IF z_air THEN (IF v[3] > 0 THEN "Front" ELSE "Back") ELSE face2

\* mutant: the z neighbour is never looked at
ResolveFace_no_z(x, y, z, v) ==
    LET x_air == AirAtValue(x + signum(v[1]), y, z)
        face1 == IF x_air THEN (IF v[1] > 0 THEN "Right" ELSE "Left") ELSE NoFace
        y_try == face1 = NoFace \/ Abs(v[2]) > Abs(v[1])
        y_air == y_try /\ AirAtValue(x, y + signum(v[2]), z)
    IN  IF y_air THEN (IF v[2] > 0 THEN "Top" ELSE "Bottom") ELSE face1

\* mutant: the first axis with an air neighbour wins, whatever the magnitudes
ResolveFace_first_air(x, y, z, v) ==
    IF AirAtValue(x + signum(v[1]), y, z)
    THEN (IF v[1] > 0 THEN "Right" ELSE "Left")
    ELSE IF AirAtValue(x, y + signum(v[2]), z)
    THEN (IF v[2] > 0 THEN "Top" ELSE "Bottom")
    ELSE IF AirAtValue(x, y, z + signum(v[3]))
    THEN (IF v[3] > 0 THEN "Back" ELSE "Front")
    ELSE NoFace

\* the face resolution of world.rs:179-222 for the hit block (x, y, z);
\* v is position - (check_position - dir).  Normalising v scales its three
\* components by the same positive factor, so the comparisons of abs_x,
\* abs_y and abs_z are those of the components of v; a zero v normalises to
\* NaN, for which every comparison is false, as it is for the zero components.
ResolveFace(x, y, z, v) ==
    LET abs_x == Abs(v[1])
        abs_y == Abs(v[2])
        abs_z == Abs(v[3])
        x_air == AirAtValue(x + signum(v[1]), y, z)
        face1 == IF x_air THEN (IF v[1] > 0 THEN "Right" ELSE "Left") ELSE NoFace
        face_is_x1 == x_air
        y_try == face1 = NoFace \/ abs_y > abs_x
        y_air == y_try /\ AirAtValue(x, y + signum(v[2]), z)
        face2 == IF y_air THEN (IF v[2] > 0 THEN "Top" ELSE "Bottom") ELSE face1
        face_is_x2 == IF y_air THEN FALSE ELSE face_is_x1
        z_try == face2 = NoFace
                    \/ (IF face_is_x2 THEN abs_z > abs_x ELSE abs_z > abs_y)
        z_air == z_try /\ AirAtValue(x, y, z + signum(v[3]))
    IN  IF z_air THEN (IF v[3] > 0 THEN "Back" ELSE "Front") ELSE face2

\* mutant: the budget is tested before the block is looked at
RaymarchExhausted_early(range) == range <= 1

\* `if range == 0 { return None; }` (world.rs:228-230)
RaymarchExhausted(range) == range = 0

\* mutant: the first pass samples the origin
CheckPosition_from_origin(position, dir, k) ==
    <<position[1] + (k - 1) * dir[1], position[2] + (k - 1) * dir[2],
      position[3] + (k - 1) * dir[3]>>

\* check_position in pass k of the loop (world.rs:170): k steps from position
CheckPosition(position, dir, k) ==
    <<position[1] + k * dir[1], position[2] + k * dir[2], position[3] + k * dir[3]>>

\* the block coordinate sampled in pass k (world.rs:171-173)
Sample(position, dir, k) ==
    LET check == CheckPosition(position, dir, k)
    IN  <<RoundTenths(check[1]), RoundTenths(check[2]), RoundTenths(check[3])>>

\* `if let Some(block) = block { if block != BlockType::Air` (world.rs:176-178)
Solid(p) ==
    LET block == GetBlockValue(p[1], p[2], p[3])
    IN  block # "None" /\ block # Air

\* the value of `range` in pass k: it starts at RaymarchRange and loses one
\* at the end of every pass (world.rs:166, 231)
RangeIn(k) == RaymarchRange - (k - 1)

\* the pass in which the loop gives up, unless it returned a hit before
LastPass ==
    CHOOSE k \in 1..(RaymarchRange + 1) :
        /\ RaymarchExhausted(RangeIn(k))
        /\ (k = 1 \/ ~RaymarchExhausted(RangeIn(k - 1)))

\* the first pass among lo..hi that samples a solid block, 0 when none does
\* (the passes are searched in order, by halves to keep the evaluation shallow)
RECURSIVE FirstHit(_, _, _, _)
FirstHit(position, dir, lo, hi) ==
    IF lo = hi
    THEN IF Solid(Sample(position, dir, lo)) THEN lo ELSE 0
    ELSE LET mid   == (lo + hi) \div 2
             first == FirstHit(position, dir, lo, mid)
         IN  IF first # 0 THEN first ELSE FirstHit(position, dir, mid + 1, hi)

\* the loop of world.rs:169-232: it returns in the first pass that samples a
\* solid block, and gives up at the end of LastPass
RaymarchLoop(position, dir) ==
    LET k    == FirstHit(position, dir, 1, LastPass)
        p    == Sample(position, dir, k)
        prev == CheckPosition(position, dir, k - 1)
    IN  IF k = 0
        THEN [kind |-> "nohit"]
        ELSE [kind |-> "hit", block |-> p,
              face |-> ResolveFace(p[1], p[2], p[3],
                          <<position[1] - prev[1], position[2] - prev[2],
                            position[3] - prev[3]>>)]

\* World::raymarch_block (world.rs:163-233)
raymarch_block(position, direction) ==
    /\ ~panicked
    /\ call' = [op |-> "raymarch_block", args |-> <<position, direction>>]
    /\ result' = RaymarchLoop(position, direction)
    /\ UNCHANGED world

\* World::localize_coords_to_chunk called on its own (world.rs:147-161)
localize(world_x, world_z) ==
    /\ ~panicked
    /\ call' = [op |-> "localize_coords_to_chunk", args |-> <<world_x, world_z>>]
    /\ result' = [kind |-> "coords", value |-> localize_coords_to_chunk(world_x, world_z)]
    /\ UNCHANGED world

\* World::get_chunk called by a client (world.rs:91-93)
call_get_chunk(chunk_x, chunk_z) ==
    /\ ~panicked
    /\ call' = [op |-> "get_chunk", args |-> <<chunk_x, chunk_z>>]
    /\ result' = get_chunk(chunk_x, chunk_z)
    /\ UNCHANGED world

\* World::get_chunk_mut (world.rs:84-89): contains, then get_mut
get_chunk_mut(chunk_x, chunk_z) ==
    /\ ~panicked
    /\ call' = [op |-> "get_chunk_mut", args |-> <<chunk_x, chunk_z>>]
    /\ result' = IF Contains(chunks, chunk_x, chunk_z)
                 THEN [some |-> TRUE, chunk |-> chunks[<<chunk_x, chunk_z>>]]
                 ELSE [some |-> FALSE]
    /\ UNCHANGED world

\* mutant: the column query creates the chunk it looks up
highest_in_column_creating(world_x, world_z) ==
    LET l == localize_coords_to_chunk(world_x, world_z)
        c == InsertIfAbsent(chunks, l.chunk_x, l.chunk_z)[<<l.chunk_x, l.chunk_z>>]
    IN  /\ ~panicked
        /\ call' = [op |-> "highest_in_column", args |-> <<world_x, world_z>>]
        /\ result' = [kind |-> "height",
                      value |-> ChunkHighestInColumn(c, l.local_x, l.local_z)]
        /\ chunks' = InsertIfAbsent(chunks, l.chunk_x, l.chunk_z)
        /\ UNCHANGED <<render_distance, simplex, player_chunk_x, player_chunk_z,
                       mesh, mesh_center, panicked>>

\* World::highest_in_column (world.rs:121-129)
highest_in_column(world_x, world_z) ==
    LET l == localize_coords_to_chunk(world_x, world_z)
        c == get_chunk(l.chunk_x, l.chunk_z)
    IN  /\ ~panicked
        /\ call' = [op |-> "highest_in_column", args |-> <<world_x, world_z>>]
        /\ result' = [kind |-> "height",
                      value |-> IF ~c.some THEN "None"
                                ELSE ChunkHighestInColumn(c.chunk, l.local_x, l.local_z)]
        /\ UNCHANGED world

\* World::highest_in_column_from_y (world.rs:131-139), for world_y >= 0
highest_in_column_from_y(world_x, world_y, world_z) ==
    LET l == localize_coords_to_chunk(world_x, world_z)
        c == get_chunk(l.chunk_x, l.chunk_z)
    IN  /\ ~panicked
        /\ call' = [op |-> "highest_in_column_from_y",
                    args |-> <<world_x, world_y, world_z>>]
        /\ result' = [kind |-> "height",
                      value |-> IF ~c.some THEN "None"
                                ELSE ChunkHighestInColumnFromY(c.chunk, l.local_x,
                                                               world_y, l.local_z)]
        /\ UNCHANGED world

(***************************************************************************)
(* The calls a client makes                                                *)
(***************************************************************************)
\* player positions: on both sides of zero and of a chunk boundary
PlayerXs == {-17, 16}

PlayerZs == {-1}

\* centres handed to recalculate_mesh_from_perspective directly
CenterXs == {0, 1}

CenterZs == {0}

\* ray origins (in tenths) and directions (in blocks)
FarOrigin == <<(RaymarchRange + 1) * StepDivisor, 0, 0>>

NearOrigins == {<<k * StepDivisor, 0, 0>> : k \in 1..MaxOriginX}

\* rays toward the origin along the x axis: a tenth of a block per step from
\* the near origins, a whole block per step from the far ones
Rays ==
    {<<o, <<-1, 0, 0>>>> : o \in NearOrigins}
        \cup {<<FarOrigin, <<-10, 0, 0>>>>,
              <<<<RaymarchRange * StepDivisor, 0, 0>>, <<-10, 0, 0>>>>,
              <<<<0, 3 * StepDivisor, 0>>, <<0, -10, 0>>>>}

CallViewport ==
    \/ \E px \in PlayerXs, pz \in PlayerZs, force \in BOOLEAN :
          get_world_mesh_from_perspective(px, pz, force)
    \/ \E cx \in CenterXs, cz \in CenterZs :
          recalculate_mesh_from_perspective(cx, cz)

CallInsert(xs, zs) ==
    \E cx \in xs, cz \in zs : get_or_insert_chunk(cx, cz)

CallSetBlock(xs, ys, zs) ==
    \E x \in xs, y \in ys, z \in zs, b \in BlockTypes : set_block(x, y, z, b)

CallQuery(xs, ys, zs) ==
    \/ \E x \in xs, y \in ys, z \in zs : air_at(x, y, z)
    \/ \E x \in xs, y \in ys, z \in zs : get_block(x, y, z)

CallRaymarch ==
    \E r \in Rays : raymarch_block(r[1], r[2])

\* the viewport, with chunks inserted and blocks edited in between
Next ==
    \/ CallViewport
    \/ CallInsert({0, 2}, {0})
    \/ CallSetBlock({-1, 0}, {1}, {0})

Spec == Init /\ [][Next]_vars

\* the block queries, on chunks that exist and on chunks that do not
NextQuery ==
    \/ CallInsert({-1, 0}, {0})
    \/ CallSetBlock({-1, 0, 1}, {0, 1}, {0})
    \/ CallQuery({-17, -1, 0, 1, 16}, {-1, 0, 1}, {0})

SpecQuery == Init /\ [][NextQuery]_vars

\* rays through a world of one or two chunks
NextRaymarch ==
    \/ CallInsert({0, 1}, {0})
    \/ CallSetBlock({0, 1}, {0}, {0})
    \/ CallRaymarch

\* the render distance plays no part in a raymarch: World::new(0)
InitRaymarch == Init /\ render_distance = 0

SpecRaymarch == InitRaymarch /\ [][NextRaymarch]_vars

\* localisation of every coordinate pair of the bounded range
\* every coordinate of the range on one axis, against a few on the other
OtherAxis == {-17, -1, 0, 16}

NextLocalize ==
    \E w \in -MaxCoord..MaxCoord, v \in OtherAxis :
        localize(w, v) \/ localize(v, w)

SpecLocalize == Init /\ [][NextLocalize]_vars

\* localisation of every coordinate of the integer width, on either axis;
\* the function is pure: one call on a fresh World for each coordinate
NextLocalizeFull ==
    /\ call.op = "new"
    /\ \E w \in IntMin..IntMax : localize(w, 0) \/ localize(0, w)

SpecLocalizeFull == Init /\ [][NextLocalizeFull]_vars

\* every read-only operation, between viewport calls, insertions and edits
CallLookup(xs, zs) ==
    \/ \E cx \in xs, cz \in zs : call_get_chunk(cx, cz)
    \/ \E cx \in xs, cz \in zs : get_chunk_mut(cx, cz)

CallColumn(xs, ys, zs) ==
    \/ \E x \in xs, z \in zs : highest_in_column(x, z)
    \/ \E x \in xs, y \in ys, z \in zs : highest_in_column_from_y(x, y, z)

\* a ray that finds the floor of chunk (0,0) and one that starts far from it
FrameRays == {<<<<0, 3 * StepDivisor, 0>>, <<0, -10, 0>>>>,
              <<FarOrigin, <<-10, 0, 0>>>>}

NextFrame ==
    \/ \E force \in BOOLEAN : get_world_mesh_from_perspective(16, -1, force)
    \/ recalculate_mesh_from_perspective(1, 0)
    \/ CallInsert({0}, {0})
    \/ CallSetBlock({0}, {1}, {0})
    \/ CallQuery({-1, 0}, {0}, {0})
    \/ CallLookup({-1, 0}, {0})
    \/ CallColumn({-1, 0}, {1}, {0})
    \/ \E r \in FrameRays : raymarch_block(r[1], r[2])

SpecFrame == Init /\ [][NextFrame]_vars

\* rays at the block (1,1,1) of chunk (0,0), over a stone floor at y = 0.
\* The cells of the block and of its neighbours (positions in tenths):
FaceBlock == <<1, 1, 1>>

FaceCells == {FaceBlock, <<2, 1, 1>>, <<1, 2, 1>>, <<1, 1, 2>>, <<1, 0, 1>>}

\* the magnitudes of the components of a step, in tenths of a block
FaceMagnitudes == {4, 6, 8}

\* a ray that samples the cell (2,2,2) in its first pass and (1,1,1) in its
\* second, for every combination of the three magnitudes
DiagonalRays ==
    {<<<<12 + 2 * a, 12 + 2 * b, 12 + 2 * c>>, <<-a, -b, -c>>>> :
        a \in FaceMagnitudes, b \in FaceMagnitudes, c \in FaceMagnitudes}

\* from the -x side with mixed signs; from below; a first pass that samples
\* (1,1,1) at once; from inside (1,1,1) toward +x
OtherRays ==
    {<<<<-4, 8, 12>>, <<8, 1, -1>>>>,
     <<<<10, -10, 10>>, <<0, 10, 0>>>>,
     <<<<16, 16, 16>>, <<-4, -4, -4>>>>,
     <<<<12, 12, 12>>, <<10, 0, 0>>>>}

FaceRays == DiagonalRays \cup OtherRays

NextFace ==
    \/ CallInsert({0}, {0})
    \/ \E p \in FaceCells, b \in BlockTypes : set_block(p[1], p[2], p[3], b)
    \/ \E r \in FaceRays : raymarch_block(r[1], r[2])

InitFace == Init /\ render_distance = 0 /\ simplex = "flat"

SpecFace == InitFace /\ [][NextFace]_vars

\* writes and reads on both sides of the chunk boundaries at 0 and at -16
WriteChunks == {<<-1, -1>>, <<-1, 0>>, <<0, 0>>}

WriteCells == {<<-1, 1, -1>>, <<-16, 1, 0>>, <<-1, 1, 0>>, <<0, 1, 0>>, <<15, 0, 0>>}

NextWrite ==
    \/ \E c \in WriteChunks : get_or_insert_chunk(c[1], c[2])
    \/ \E p \in WriteCells, b \in BlockTypes : set_block(p[1], p[2], p[3], b)
    \/ \E p \in WriteCells : get_block(p[1], p[2], p[3])

InitWrite == Init /\ render_distance = 0

SpecWrite == InitWrite /\ [][NextWrite]_vars

(***************************************************************************)
(* Properties                                                              *)
(***************************************************************************)
\* the chunk coordinates of the entries of a mesh sequence
MeshCoords(ms) == [i \in 1..Len(ms) |-> <<ms[i].chunk_x, ms[i].chunk_z>>]

IsCall(op) == call.op = op

\* C1: for every signed world coordinate w of the range, on the x and on the
\* z axis, localize_coords_to_chunk returns a chunk c and a local offset l
\* with c * 16 + l = w and 0 <= l < 16; -1 -> (-1, 15), 16 -> (1, 0) and
\* -17 -> (-2, 15).
C1_LocalizeRoundTrip ==
    IsCall("localize_coords_to_chunk") =>
        LET r == result.value
            RoundTrip(w, c, l) ==
                /\ c * 16 + l = w
                /\ 0 <= l /\ l < 16
                /\ (w = -1 => c = -1 /\ l = 15)
                /\ (w = 16 => c = 1 /\ l = 0)
                /\ (w = -17 => c = -2 /\ l = 15)
        IN  /\ RoundTrip(call.args[1], r.chunk_x, r.local_x)
            /\ RoundTrip(call.args[2], r.chunk_z, r.local_z)

\* C1 witness: (-17, -1) has been localised to chunk (-2, -1), local (15, 15)
C1_Witness ==
    /\ IsCall("localize_coords_to_chunk")
    /\ call.args = <<-17, -1>>
    /\ result.value = [chunk_x |-> -2, chunk_z |-> -1, local_x |-> 15, local_z |-> 15]

\* the arguments of the last call make a cache hit in the current state
HitsCache(c) ==
    /\ ~c.args[3]
    /\ Len(mesh) > 0
    /\ TruncDiv(c.args[1], 16) = player_chunk_x
    /\ TruncDiv(c.args[2], 16) = player_chunk_z

\* C2: a call get_world_mesh_from_perspective(player_x, player_z, false) made
\* while the mesh cache is non-empty and the player's chunk is the stored
\* viewer chunk returns the cached sequence and leaves the chunk map, the
\* mesh cache and the viewer chunk unchanged; a second call in a row with the
\* same position and force = false creates no chunk and returns equal content.
C2_CacheHitFrame ==
    [][/\ (call'.op = "get_world_mesh_from_perspective" /\ HitsCache(call'))
            => /\ result'.value = mesh
               /\ chunks' = chunks
               /\ mesh' = mesh
               /\ player_chunk_x' = player_chunk_x
               /\ player_chunk_z' = player_chunk_z
       /\ (/\ call.op = "get_world_mesh_from_perspective"
           /\ call' = call
           /\ ~call.args[3])
            => /\ chunks' = chunks
               /\ result'.value = result.value]_vars

\* C2 witness: a call with force = false has returned a cache that a
\* recomputation would have replaced (it was last computed for another chunk)
C2_Witness ==
    /\ IsCall("get_world_mesh_from_perspective")
    /\ ~call.args[3]
    /\ Len(mesh) > 0
    /\ TruncDiv(call.args[1], 16) = player_chunk_x
    /\ TruncDiv(call.args[2], 16) = player_chunk_z
    /\ mesh_center # <<player_chunk_x, player_chunk_z>>
    /\ result.value = mesh

\* C3 as stated: every chunk whose mesh get_world_mesh_from_perspective
\* returns is within render_distance of the player's chunk, and no chunk of
\* the enumerated square that is farther away has an entry in the result.
C3_ReturnedWithinDisc ==
    IsCall("get_world_mesh_from_perspective") =>
        LET pcx == TruncDiv(call.args[1], 16)
            pcz == TruncDiv(call.args[2], 16)
            R   == render_distance
            got == MeshCoords(result.value)
        IN  /\ \A i \in 1..Len(got) :
                  (pcx - got[i][1])^2 + (pcz - got[i][2])^2 <= R * R
            /\ \A x \in (pcx - R)..(pcx + R - 1), z \in (pcz - R)..(pcz + R - 1) :
                  (pcx - x)^2 + (pcz - z)^2 > R * R
                      => \A i \in 1..Len(got) : got[i] # <<x, z>>

\* C4 as stated: the mesh cache is empty or holds exactly one entry for each
\* chunk whose distance from the viewer chunk is at most render_distance.
C4_CacheCoversDisc ==
    \/ mesh = <<>>
    \/ LET R   == render_distance
           got == MeshCoords(mesh)
       IN  \A x \in (player_chunk_x - R)..(player_chunk_x + R),
              z \in (player_chunk_z - R)..(player_chunk_z + R) :
               (player_chunk_x - x)^2 + (player_chunk_z - z)^2 <= R * R
                   => Cardinality({i \in 1..Len(got) : got[i] = <<x, z>>}) = 1

\* C5 as stated: the player chunk get_world_mesh_from_perspective stores and
\* centres the disc on is floor(player_x / 16), floor(player_z / 16), the
\* chunk localize_coords_to_chunk gives for the same coordinates.
C5_PlayerChunkIsFloor ==
    IsCall("get_world_mesh_from_perspective") =>
        /\ player_chunk_x = call.args[1] \div 16
        /\ player_chunk_z = call.args[2] \div 16
        /\ player_chunk_x = localize_axis(call.args[1]).chunk
        /\ player_chunk_z = localize_axis(call.args[2]).chunk

\* C6 as stated: whenever the mesh cache is non-empty, the stored viewer chunk
\* is the chunk the mesh cache was last computed for.
C6_ViewerIsCacheCenter ==
    Len(mesh) > 0 => <<player_chunk_x, player_chunk_z>> = mesh_center

\* the samples of passes 1..n of a ray hold no solid block
NoneSolid(position, dir, n) ==
    \A k \in 1..n : ~Solid(Sample(position, dir, k))

\* C7 as stated: raymarch_block samples at most 250 positions, origin + k *
\* direction / 10 for k = 1..250, so whenever none of those 250 positions
\* holds a non-air block the result is "no hit".
C7_NoHitAfter250 ==
    IsCall("raymarch_block") =>
        (NoneSolid(call.args[1], call.args[2], 250) => result.kind = "nohit")

\* a solid block at (0,0,0) of a loaded chunk and air everywhere else
SingleBlockWorld ==
    /\ simplex = "void"
    /\ <<0, 0>> \in DOMAIN chunks
    /\ \A c \in DOMAIN chunks :
          /\ c = <<0, 0>> =>
                /\ DOMAIN chunks[c].edits = {<<0, 0, 0>>}
                /\ chunks[c].edits[<<0, 0, 0>>] # Air
          /\ c # <<0, 0>> => DOMAIN chunks[c].edits = {}

\* C8: in a world with a solid block at (0,0,0) and air everywhere else,
\* raymarch_block from (k,0,0) with direction (-1,0,0) returns a hit at
\* (0,0,0) with face Right, for every integer k of 1..MaxOriginX (k = 5 too).
C8_HitRightFace ==
    (/\ IsCall("raymarch_block")
     /\ SingleBlockWorld
     /\ call.args[2] = <<-1, 0, 0>>
     /\ \E k \in 1..MaxOriginX : call.args[1] = <<k * 10, 0, 0>>)
        => result = [kind |-> "hit", block |-> <<0, 0, 0>>, face |-> "Right"]

\* C8 witness: the ray from (5,0,0) has hit (0,0,0) on its Right face
C8_Witness ==
    /\ IsCall("raymarch_block")
    /\ SingleBlockWorld
    /\ call.args = <<<<50, 0, 0>>, <<-1, 0, 0>>>>
    /\ result = [kind |-> "hit", block |-> <<0, 0, 0>>, face |-> "Right"]

\* the chunk that owns world coordinate (x, z): floor(x / 16), floor(z / 16)
Owner(x, z) == <<x \div 16, z \div 16>>

\* C9: air_at returns false for every coordinate below the world floor,
\* whether or not the owning chunk exists.
C9_BelowFloorNotAir ==
    (IsCall("air_at") /\ call.args[2] < 0) => result.value = FALSE

\* C9 witness: air_at(x, -1, z) has returned false where no chunk exists
C9_Witness ==
    /\ IsCall("air_at")
    /\ call.args[2] = -1
    /\ Owner(call.args[1], call.args[3]) \notin DOMAIN chunks
    /\ result.value = FALSE

\* the block stored at world (x, y, z), whose owning chunk exists
StoredBlock(x, y, z) ==
    LET c == chunks[Owner(x, z)]
        p == <<x % 16, y, z % 16>>
    IN  IF p \in DOMAIN c.edits THEN c.edits[p] ELSE Terrain(c.seed, y)

\* C10 as stated: air_at returns true if world_y is negative or the owning
\* chunk does not exist, and otherwise true exactly when the block stored at
\* the localised position of the owning chunk is Air.
C10_AirAtAsStated ==
    IsCall("air_at") =>
        LET x == call.args[1]
            y == call.args[2]
            z == call.args[3]
        IN  result.value =
                (IF y < 0 \/ Owner(x, z) \notin DOMAIN chunks
                 THEN TRUE
                 ELSE StoredBlock(x, y, z) = Air)

\* C10 amended: air_at returns false if world_y is negative; otherwise it
\* returns true if the owning chunk does not exist, and otherwise true exactly
\* when the block stored at the localised position of the owning chunk is Air.
C10_AirAt ==
    IsCall("air_at") =>
        LET x == call.args[1]
            y == call.args[2]
            z == call.args[3]
        IN  result.value =
                (IF y < 0 THEN FALSE
                 ELSE IF Owner(x, z) \notin DOMAIN chunks THEN TRUE
                 ELSE StoredBlock(x, y, z) = Air)

\* C10 witness: air_at has returned false for a stone block at a negative x
\* of a chunk that exists
C10_Witness ==
    /\ IsCall("air_at")
    /\ call.args = <<-1, 1, 0>>
    /\ <<-1, 0>> \in DOMAIN chunks
    /\ chunks[<<-1, 0>>].edits = (<<15, 1, 0>> :> Stone)
    /\ result.value = FALSE

\* C11 as stated: for any world coordinate whose owning chunk was never
\* created, air_at returns true and get_block returns None; get_block returns
\* None for every negative world_y, and otherwise the stored block.
C11_UnloadedAsStated ==
    LET x == call.args[1]
        y == call.args[2]
        z == call.args[3]
    IN  /\ (IsCall("air_at") /\ Owner(x, z) \notin DOMAIN chunks)
              => result.value = TRUE
        /\ IsCall("get_block") =>
              result.value =
                  (IF Owner(x, z) \notin DOMAIN chunks \/ y < 0
                   THEN "None"
                   ELSE StoredBlock(x, y, z))

\* C11 amended: for any world coordinate with world_y >= 0 whose owning chunk
\* was never created air_at returns true; get_block returns None for any
\* coordinate whose owning chunk was never created and for every negative
\* world_y, and otherwise the block the owning chunk stores there.
C11_Unloaded ==
    LET x == call.args[1]
        y == call.args[2]
        z == call.args[3]
    IN  /\ (IsCall("air_at") /\ y >= 0 /\ Owner(x, z) \notin DOMAIN chunks)
              => result.value = TRUE
        /\ IsCall("get_block") =>
              result.value =
                  (IF Owner(x, z) \notin DOMAIN chunks \/ y < 0
                   THEN "None"
                   ELSE StoredBlock(x, y, z))

\* C11 witness: get_block at y >= 0 has returned None where no chunk exists,
\* next to a chunk that does
C11_Witness ==
    /\ IsCall("get_block")
    /\ call.args = <<16, 0, 0>>
    /\ <<1, 0>> \notin DOMAIN chunks
    /\ <<0, 0>> \in DOMAIN chunks
    /\ result.value = "None"

\* the block a chunk map stores at world (x, y, z), whose owning chunk exists
BlockIn(cm, x, y, z) ==
    LET c == cm[Owner(x, z)]
        p == <<x % 16, y, z % 16>>
    IN  IF p \in DOMAIN c.edits THEN c.edits[p] ELSE Terrain(c.seed, y)

\* C12: set_block on a coordinate whose owning chunk was never created ends
\* in a panic: it creates no chunk, and nothing runs after it; when the owning
\* chunk exists, set_block writes the block at the localised position of that
\* chunk, leaves the other chunks alone and does not panic.
C12_SetBlockPanics ==
    [][/\ ~panicked
       /\ call'.op = "set_block" =>
            LET x == call'.args[1]
                y == call'.args[2]
                z == call'.args[3]
            IN  IF Owner(x, z) \notin DOMAIN chunks
                THEN panicked' /\ chunks' = chunks
                ELSE /\ ~panicked'
                     /\ DOMAIN chunks' = DOMAIN chunks
                     /\ BlockIn(chunks', x, y, z) = call'.args[4]
                     /\ \A k \in DOMAIN chunks \ {Owner(x, z)} :
                            chunks'[k] = chunks[k]]_vars

\* C12 witness: set_block at x = 1 has panicked, chunk (0,0) not existing
\* while chunk (-1,0) does
C12_Witness ==
    /\ IsCall("set_block")
    /\ call.args[1] = 1
    /\ panicked
    /\ DOMAIN chunks = {<<-1, 0>>}

\* C13: over any sequence of operations the set of chunk coordinates only
\* grows and every chunk stays at the coordinate it was created for;
\* get_or_insert_chunk(cx, cz) ends with a chunk at (cx, cz) and returns it,
\* and a chunk that already exists is neither replaced nor created again:
\* only set_block changes the chunk stored at an existing coordinate.
C13_ChunksOnlyGrow ==
    [][/\ DOMAIN chunks \subseteq DOMAIN chunks'
       /\ \A k \in DOMAIN chunks' :
              chunks'[k].chunk_x = k[1] /\ chunks'[k].chunk_z = k[2]
       /\ \A k \in DOMAIN chunks :
              call'.op # "set_block" => chunks'[k] = chunks[k]
       /\ call'.op = "get_or_insert_chunk" =>
              LET k == <<call'.args[1], call'.args[2]>>
              IN  /\ k \in DOMAIN chunks'
                  /\ result'.value = chunks'[k]
                  /\ k \in DOMAIN chunks => chunks'[k] = chunks[k]]_vars

\* C13 witness: get_or_insert_chunk(0, 0) has returned the chunk that was
\* there already, which carries an earlier edit
C13_Witness ==
    /\ IsCall("get_or_insert_chunk")
    /\ call.args = <<0, 0>>
    /\ <<0, 0>> \in DOMAIN chunks
    /\ DOMAIN chunks[<<0, 0>>].edits # {}
    /\ result.value = chunks[<<0, 0>>]

ReadOnlyOps ==
    {"get_chunk", "get_chunk_mut", "air_at", "get_block", "highest_in_column",
     "highest_in_column_from_y", "raymarch_block"}

AddingOps ==
    {"get_or_insert_chunk", "get_world_mesh_from_perspective",
     "recalculate_mesh_from_perspective"}

\* C14: get_chunk and get_chunk_mut answer "not found" exactly for the
\* coordinates that have no chunk, and create none; air_at, get_block,
\* highest_in_column, highest_in_column_from_y and raymarch_block leave the
\* chunk map, the viewer chunk and the mesh cache as they were; a step that
\* adds a chunk is a get_or_insert_chunk or a viewport recomputation.
C14_ReadOnlyFrame ==
    [][/\ call'.op \in {"get_chunk", "get_chunk_mut"} =>
              result'.some = (<<call'.args[1], call'.args[2]>> \in DOMAIN chunks)
       /\ call'.op \in ReadOnlyOps =>
              /\ chunks' = chunks
              /\ player_chunk_x' = player_chunk_x
              /\ player_chunk_z' = player_chunk_z
              /\ mesh' = mesh
       /\ DOMAIN chunks' # DOMAIN chunks => call'.op \in AddingOps]_vars

\* C14 witness: highest_in_column(-1, 0) has answered "no data" with a
\* filled mesh cache, chunk (-1,0) not existing while chunk (0,0) does
C14_Witness ==
    /\ IsCall("highest_in_column")
    /\ call.args = <<-1, 0>>
    /\ <<-1, 0>> \notin DOMAIN chunks
    /\ <<0, 0>> \in DOMAIN chunks
    /\ mesh # <<>>
    /\ result.value = "None"

\* C15: for every world coordinate of the whole signed integer range, no
\* intermediate value of localize_coords_to_chunk (chunk.abs(),
\* chunk.abs() * 16, chunk.abs() * 16 + world) leaves the range, and the
\* returned chunk c and local offset l satisfy c * 16 + l = world and
\* 0 <= l < 16, on the x and on the z axis.
C15_ExactFullRange ==
    IsCall("localize_coords_to_chunk") =>
        LET r == result.value
        IN  /\ ~localize_axis(call.args[1]).overflow
            /\ ~localize_axis(call.args[2]).overflow
            /\ r.chunk_x * ChunkSize + r.local_x = call.args[1]
            /\ r.chunk_z * ChunkSize + r.local_z = call.args[2]
            /\ r.local_x \in 0..(ChunkSize - 1)
            /\ r.local_z \in 0..(ChunkSize - 1)

\* the retained candidates around (pcx, pcz): the chunks of the square of
\* offsets -R..R-1, x outer and z inner, that are within R of the centre
Candidates(pcx, pcz) ==
    LET R      == render_distance
        n      == 2 * R
        square == [i \in 1..(n * n) |->
                      <<((i - 1) \div n) - R + pcx, ((i - 1) % n) - R + pcz>>]
        Near(c) == (pcx - c[1])^2 + (pcz - c[2])^2 <= R * R
    IN  SelectSeq(square, Near)

\* C16: a call get_world_mesh_from_perspective with force = true, and a call
\* with force = false made while the cache is empty or the player's chunk is
\* not the stored viewer chunk, recomputes: after it every retained candidate
\* chunk exists, the mesh cache (which is returned) is the sequence of the
\* current mesh buffers of those chunks in enumeration order, and the viewer
\* chunk is the player's chunk.
C16_RecomputeOnMiss ==
    [][(call'.op = "get_world_mesh_from_perspective" /\ ~HitsCache(call')) =>
          LET pcx  == TruncDiv(call'.args[1], 16)
              pcz  == TruncDiv(call'.args[2], 16)
              cand == Candidates(pcx, pcz)
          IN  /\ \A i \in 1..Len(cand) : cand[i] \in DOMAIN chunks'
              /\ mesh' = [i \in 1..Len(cand) |-> ChunkMesh(chunks'[cand[i]])]
              /\ result'.value = mesh'
              /\ player_chunk_x' = pcx
              /\ player_chunk_z' = pcz]_vars

\* C16 witness: a call with force = true has returned a cache that shows a
\* block edit made after the chunks of the viewport were created
C16_Witness ==
    /\ IsCall("get_world_mesh_from_perspective")
    /\ call.args = <<-17, -1, TRUE>>
    /\ <<player_chunk_x, player_chunk_z>> = <<-1, 0>>
    /\ Len(mesh) = 3
    /\ \E i \in 1..Len(mesh) : DOMAIN mesh[i].geometry # {}
    /\ result.value = mesh

\* a non-air block of an existing chunk, at or above the floor
IsSolidBlock(p) ==
    /\ p[2] >= 0
    /\ Owner(p[1], p[3]) \in DOMAIN chunks
    /\ StoredBlock(p[1], p[2], p[3]) # Air

\* the point a ray reaches after k steps of direction / 10, in tenths of a
\* block, and the cell it lies in
RayPoint(position, dir, k) == [i \in 1..3 |-> position[i] + k * dir[i]]

RayCell(position, dir, k) ==
    LET q == RayPoint(position, dir, k)
    IN  <<RoundTenths(q[1]), RoundTenths(q[2]), RoundTenths(q[3])>>

\* C17: when raymarch_block reports a hit at (x, y, z), that block is a
\* non-air block of an existing chunk with y >= 0, it is the sample of some
\* pass k >= 1 (the rounded origin + k * direction / 10), and the sample of
\* every earlier pass 1..k-1 was air, below the floor or in a chunk that does
\* not exist; the origin (k = 0) is not sampled.
C17_HitIsFirstSolid ==
    (IsCall("raymarch_block") /\ result.kind = "hit") =>
        /\ IsSolidBlock(result.block)
        /\ \E k \in 1..(RaymarchRange + 1) :
              /\ RayCell(call.args[1], call.args[2], k) = result.block
              /\ \A j \in 1..(k - 1) :
                    ~IsSolidBlock(RayCell(call.args[1], call.args[2], j))

\* C17 witness: the ray that starts inside the solid block (1,1,1) and goes
\* toward +x has hit (2,1,1), the sample of its first pass
C17_Witness ==
    /\ IsCall("raymarch_block")
    /\ call.args = <<<<12, 12, 12>>, <<10, 0, 0>>>>
    /\ IsSolidBlock(FaceBlock)
    /\ result.kind = "hit"
    /\ result.block = <<2, 1, 1>>

\* the pass in which a ray first samples a solid block
FirstSolidPass(position, dir) ==
    CHOOSE k \in 1..(RaymarchRange + 1) :
        /\ IsSolidBlock(RayCell(position, dir, k))
        /\ \A j \in 1..(k - 1) : ~IsSolidBlock(RayCell(position, dir, j))

\* the approach vector of a hit: from the position before the hit pass to the
\* origin of the ray (in tenths of a block)
Approach(position, dir) ==
    LET before == RayPoint(position, dir, FirstSolidPass(position, dir) - 1)
    IN  [i \in 1..3 |-> position[i] - before[i]]

\* the neighbour of a block on axis i, on the side the approach vector points to
ApproachNeighbour(block, a, i) ==
    [j \in 1..3 |-> IF j = i THEN block[j] + (IF a[j] > 0 THEN 1 ELSE -1)
                    ELSE block[j]]

ApproachNeighbourIsAir(block, a, i) ==
    LET n == ApproachNeighbour(block, a, i)
    IN  AirAtValue(n[1], n[2], n[3])

\* C18: when raymarch_block reports a hit, the face is None exactly when none
\* of the three approach-side neighbours (x + sx, y, z), (x, y + sy, z) and
\* (x, y, z + sz) of the hit block is air according to air_at; the hit
\* coordinate is returned in that case too, and a face is returned whenever
\* one of the three is air.
C18_NoFaceIffEnclosed ==
    (IsCall("raymarch_block") /\ result.kind = "hit") =>
        LET a == Approach(call.args[1], call.args[2])
        IN  /\ result.block =
                  RayCell(call.args[1], call.args[2],
                          FirstSolidPass(call.args[1], call.args[2]))
            /\ (result.face = NoFace) <=>
                  (\A i \in 1..3 : ~ApproachNeighbourIsAir(result.block, a, i))

\* C18 witness: a diagonal ray has hit (1,1,1), whose three approach-side
\* neighbours are solid, and no face is reported
C18_Witness ==
    /\ IsCall("raymarch_block")
    /\ call.args = <<<<24, 28, 20>>, <<-6, -8, -4>>>>
    /\ result = [kind |-> "hit", block |-> FaceBlock, face |-> NoFace]
    /\ IsSolidBlock(<<2, 1, 1>>)
    /\ IsSolidBlock(<<1, 2, 1>>)
    /\ IsSolidBlock(<<1, 1, 2>>)

\* the face of axis i, on its positive or on its negative side
FaceOf(i, positive) ==
    IF i = 1 THEN (IF positive THEN "Right" ELSE "Left")
    ELSE IF i = 2 THEN (IF positive THEN "Top" ELSE "Bottom")
    ELSE (IF positive THEN "Back" ELSE "Front")

\* C19: when raymarch_block reports a hit with a face, the face lies on the
\* axis of greatest magnitude of the approach vector among the axes whose
\* approach-side neighbour is air, the earlier axis in the order x, y, z on a
\* tie; it is Right/Top/Back when the component of that axis is positive, and
\* Left/Bottom/Front otherwise; the neighbour across that face is air.
C19_FaceOnDominantAirAxis ==
    (IsCall("raymarch_block") /\ result.kind = "hit" /\ result.face # NoFace) =>
        LET a    == Approach(call.args[1], call.args[2])
            open == {i \in 1..3 : ApproachNeighbourIsAir(result.block, a, i)}
            best == CHOOSE i \in open :
                        \A j \in open :
                            \/ Abs(a[j]) < Abs(a[i])
                            \/ (Abs(a[j]) = Abs(a[i]) /\ j >= i)
        IN  /\ open # {}
            /\ result.face = FaceOf(best, a[best] > 0)
            /\ ApproachNeighbourIsAir(result.block, a, best)

\* C19 witness: the x and the z neighbour of (1,1,1) are air, the y neighbour
\* is solid, |approach.y| > |approach.z| > |approach.x|: the face is Back
C19_Witness ==
    /\ IsCall("raymarch_block")
    /\ call.args = <<<<20, 28, 24>>, <<-4, -8, -6>>>>
    /\ result = [kind |-> "hit", block |-> FaceBlock, face |-> "Back"]
    /\ IsSolidBlock(<<1, 2, 1>>)
    /\ ~IsSolidBlock(<<2, 1, 1>>)
    /\ ~IsSolidBlock(<<1, 1, 2>>)

\* the coordinates read back around a write: both sides of the chunk
\* boundaries, positive and negative x and z
ProbeXs == {-17, -16, -15, -1, 0, 1, 15, 16}

ProbeZs == {-16, -1, 0, 1}

ProbeYs == {0, 1}

\* what get_block answers at (x, y, z) on the chunk map cm (world.rs:110-119)
ReadBlock(cm, x, y, z) ==
    LET l == localize_coords_to_chunk(x, z)
        k == <<l.chunk_x, l.chunk_z>>
    IN  IF k \notin DOMAIN cm \/ y < 0
        THEN "None"
        ELSE ChunkBlockAt(cm[k], l.local_x, y, l.local_z)

\* C20: for every world coordinate (x, y, z) with y >= 0 whose owning chunk
\* exists, after set_block(x, y, z, b) get_block(x, y, z) returns b and
\* get_block at every other coordinate, in the same chunk or in another one,
\* with positive or negative x and z, returns what it returned before.
C20_WriteThenRead ==
    [][(call'.op = "set_block" /\ ~panicked') =>
          \A x \in ProbeXs \cup {call'.args[1]}, y \in ProbeYs,
             z \in ProbeZs \cup {call'.args[3]} :
              ReadBlock(chunks', x, y, z) =
                  IF <<x, y, z>> = <<call'.args[1], call'.args[2], call'.args[3]>>
                  THEN call'.args[4]
                  ELSE ReadBlock(chunks, x, y, z)]_vars

\* C20 witness: get_block(-1, 1, -1) returns the stone written there, and
\* the cells written on the other side of the chunk boundaries are still air
C20_Witness ==
    /\ IsCall("get_block")
    /\ call.args = <<-1, 1, -1>>
    /\ result.value = Stone
    /\ DOMAIN chunks = WriteChunks
    /\ GetBlockValue(-1, 1, 0) = Air
    /\ GetBlockValue(0, 1, 0) = Air
    /\ GetBlockValue(15, 0, 0) = Air

====
